---- MODULE Spec2Model ----
(***************************************************************************)
(* Model of the funs lexer: the position Cursor (lexer/cursor.rs), the     *)
(* token classification (lexer/token.rs), the lexical state machine        *)
(* (lexer/states.rs) and the driving loop Lexer::next (lexer/mod.rs); and  *)
(* of the tree-building parser that main.rs runs on the lexer's tokens.    *)
(*                                                                         *)
(* A text is a sequence of characters; a character is a one-character      *)
(* string.  Rust strings are UTF-8: Cursor::peek counts characters, while  *)
(* Cursor::is_eof, the slices content()[index..offset] and String::remove  *)
(* count bytes, so every character carries its UTF-8 width (ByteWidth).    *)
(***************************************************************************)
EXTENDS Integers, Sequences, FiniteSets, TLC

\* cursor, state, errors: the fields of Lexer.  tokens: the tokens yielded so
\* far.  nones: how often next() has returned None.  panicked: the process
\* was stopped by a panic.  History variables: input is the text the lexer
\* was created with; gap counts the spaces and tabs StateStart has consumed
\* since the last token, gaps[i] is that count in front of tokens[i].
VARIABLES cursor, state, tokens, errors, nones, panicked, input, gap, gaps

\* parser: the tree-building parser (token array, pos, fuel, events, the
\* fatal stop it has run into, if any, and as history the calls of nth()
\* since the last advance() and what eat() or expect() returned last).  marks: the marks that open() has returned and
\* that have not been closed.  phase: where the code that drives the parser
\* is.
VARIABLES parser, marks, phase

lexerVars == <<cursor, state, tokens, errors, nones, panicked, input, gap, gaps>>

parserVars == <<parser, marks, phase>>

vars == <<lexerVars, parserVars>>

\* the parser has not been created
ParserUnused ==
  /\ parser = <<>>
  /\ marks = {}
  /\ phase = "Lexing"

(***************************************************************************)
(* Bounds of the model.                                                    *)
(***************************************************************************)
\* longest enumerated input text, in characters
MaxLen == 3

\* pulls of the exhausted iterator that are followed
MaxNones == 2

(***************************************************************************)
(* Characters.                                                             *)
(***************************************************************************)
SPACE == " "

TAB == "\t"

CARRIAGE_RETURN == "\r"

HASH == "#"

BACKSLASH == "\\"

DOT == "."

COLON == ":"

SEMICOLON == ";"

ASSIGN == "="

NEW_LINE == "\n"

SINGLE_QUOTE == "'"

DOUBLE_QUOTE == "\""

OPEN_PAREN == "("

CLOSE_PAREN == ")"

OPEN_BRACKET == "{"

CLOSE_BRACKET == "}"

OPEN_BRACE == "["

CLOSE_BRACE == "]"

COMMA == ","

MINUS == "-"

PLUS == "+"

STAR == "*"

SLASH == "/"

GREATER == ">"

UNDERSCORE == "_"

PIPE == "|"

\* an ASCII character no state of the lexer recognises
AT_SIGN == "@"

\* a two-byte character that is not alphabetic (U+00A3)
POUND == "£"

\* a two-byte alphabetic character (U+00E9)
E_ACUTE == "é"

\* Option::None of Cursor::peek
None == "None"

\* char::len_utf8
ByteWidth(c) == IF c \in {POUND, E_ACUTE} THEN 2 ELSE 1

\* char::is_alphabetic, on the characters of the model
is_alphabetic(c) == c \in {"a", "b", "i", "n", "t", "x", E_ACUTE}

\* char::is_ascii_digit
is_ascii_digit(c) == c \in {"0", "1", "2", "3", "4", "5", "6", "7", "8", "9"}

\* char::is_numeric
is_numeric(c) == is_ascii_digit(c)

\* char::is_alphanumeric
is_alphanumeric(c) == is_alphabetic(c) \/ is_numeric(c)

(***************************************************************************)
(* UTF-8 strings: byte length, character boundaries, slicing, removal.     *)
(***************************************************************************)
RECURSIVE ByteLen(_)
ByteLen(s) == IF s = <<>> THEN 0 ELSE ByteWidth(Head(s)) + ByteLen(Tail(s))

\* str::is_char_boundary
is_char_boundary(s, b) == \E k \in 0..Len(s) : ByteLen(SubSeq(s, 1, k)) = b

\* number of characters that end at or before byte b
CharsBefore(s, b) == CHOOSE k \in 0..Len(s) : ByteLen(SubSeq(s, 1, k)) = b

\* the slice s[i..j] is taken without a panic
SliceOk(s, i, j) == i <= j /\ is_char_boundary(s, i) /\ is_char_boundary(s, j)

\* the slice s[i..j] by byte indices
Slice(s, i, j) == SubSeq(s, CharsBefore(s, i) + 1, CharsBefore(s, j))

\* String::remove(b) is done without a panic
RemoveOk(s, b) == b < ByteLen(s) /\ is_char_boundary(s, b)

\* String::remove(b)
Remove(s, b) ==
  LET k == CharsBefore(s, b) + 1
  IN  SubSeq(s, 1, k - 1) \o SubSeq(s, k + 1, Len(s))

(***************************************************************************)
(* Token model (lexer/token.rs).                                           *)
(***************************************************************************)
KEYWORD_UNIT == <<"u", "n", "i", "t">>

KEYWORD_INT == <<"i", "n", "t">>

KEYWORD_FLOAT == <<"f", "l", "o", "a", "t">>

KEYWORD_BOOL == <<"b", "o", "o", "l">>

KEYWORD_STR == <<"s", "t", "r">>

KEYWORD_BOOL_TRUE == <<"t", "r", "u", "e">>

KEYWORD_BOOL_FALSE == <<"f", "a", "l", "s", "e">>

KEYWORD_MATCH == <<"m", "a", "t", "c", "h">>

KEYWORD_IF == <<"i", "f">>

KEYWORD_THEN == <<"t", "h", "e", "n">>

KEYWORD_ELSE == <<"e", "l", "s", "e">>

KEYWORD_DATA == <<"d", "a", "t", "a">>

RIGHT_ARROW == <<MINUS, GREATER>>

RIGHT_DOUBLE_ARROW == <<ASSIGN, GREATER>>

PLUS_PLUS == <<PLUS, PLUS>>

can_be_followed_by_another_symbol(c) == c \in {MINUS, ASSIGN, PLUS}

is_symbol(c) ==
  c \in {COLON, DOT, SEMICOLON, ASSIGN, SINGLE_QUOTE, DOUBLE_QUOTE,
         OPEN_PAREN, CLOSE_PAREN, OPEN_BRACE, CLOSE_BRACE, OPEN_BRACKET,
         CLOSE_BRACKET, UNDERSCORE, PIPE, COMMA, MINUS, PLUS, STAR, SLASH,
         GREATER, NEW_LINE}

match_keyword(lexeme) ==
  CASE lexeme = KEYWORD_BOOL_TRUE -> "TokenLiteral(Bool)"
    [] lexeme = KEYWORD_BOOL_FALSE -> "TokenLiteral(Bool)"
    [] lexeme = KEYWORD_UNIT -> "TokenKeyword(UnitType)"
    [] lexeme = KEYWORD_INT -> "TokenKeyword(IntType)"
    [] lexeme = KEYWORD_FLOAT -> "TokenKeyword(FloatType)"
    [] lexeme = KEYWORD_BOOL -> "TokenKeyword(BoolType)"
    [] lexeme = KEYWORD_STR -> "TokenKeyword(StrType)"
    [] lexeme = KEYWORD_MATCH -> "TokenKeyword(Match)"
    [] lexeme = KEYWORD_IF -> "TokenKeyword(If)"
    [] lexeme = KEYWORD_THEN -> "TokenKeyword(Then)"
    [] lexeme = KEYWORD_ELSE -> "TokenKeyword(Else)"
    [] lexeme = KEYWORD_DATA -> "TokenKeyword(Data)"
    [] OTHER -> None

match_number(lexeme) ==
  IF \A i \in 1..Len(lexeme) : is_numeric(lexeme[i])
  THEN "TokenLiteral(Int)"
  ELSE IF \E i \in 1..Len(lexeme) : lexeme[i] = DOT
       THEN "TokenLiteral(Float)"
       ELSE None

match_separator(lexeme) ==
  CASE lexeme = <<DOT>> -> "TokenDot"
    [] lexeme = <<COLON>> -> "TokenColon"
    [] lexeme = <<SEMICOLON>> -> "TokenSemicolon"
    [] lexeme = <<ASSIGN>> -> "TokenAssign"
    [] lexeme = <<SINGLE_QUOTE>> -> "TokenSingleQuote"
    [] lexeme = <<DOUBLE_QUOTE>> -> "TokenDoubleQuote"
    [] lexeme = <<OPEN_PAREN>> -> "TokenOpenParen"
    [] lexeme = <<CLOSE_PAREN>> -> "TokenCloseParen"
    [] lexeme = <<OPEN_BRACE>> -> "TokenOpenBrace"
    [] lexeme = <<CLOSE_BRACE>> -> "TokenCloseBrace"
    [] lexeme = <<OPEN_BRACKET>> -> "TokenOpenBracket"
    [] lexeme = <<CLOSE_BRACKET>> -> "TokenCloseBracket"
    [] lexeme = <<UNDERSCORE>> -> "TokenUnderscore"
    [] lexeme = <<COMMA>> -> "TokenComma"
    [] lexeme = <<PLUS>> -> "TokenPlus"
    [] lexeme = <<MINUS>> -> "TokenMinus"
    [] lexeme = <<STAR>> -> "TokenStar"
    [] lexeme = <<SLASH>> -> "TokenSlash"
    [] lexeme = RIGHT_ARROW -> "TokenRightArrow"
    [] lexeme = RIGHT_DOUBLE_ARROW -> "TokenRightDoubleArrow"
    [] lexeme = PLUS_PLUS -> "TokenPlusPlus"
    [] lexeme = <<PIPE>> -> "TokenPipe"
    [] OTHER -> None

\* impl From<&String> for TokenKind
TokenKind_from(lexeme) ==
  IF lexeme = <<NEW_LINE>> THEN "TokenNewLine"
  ELSE IF lexeme = <<TAB>> THEN "TokenTab"
  ELSE IF lexeme = <<SPACE>> THEN "TokenSpace"
  ELSE IF match_keyword(lexeme) # None THEN match_keyword(lexeme)
  ELSE IF match_separator(lexeme) # None THEN match_separator(lexeme)
  ELSE IF match_number(lexeme) # None THEN match_number(lexeme)
  ELSE "TokenIdentifier"

\* Token::new; the file path is the same in every token and is left out
Token_new(kind, lexeme, location) ==
  [kind |-> kind, lexeme |-> lexeme, line |-> location.line,
   column_start |-> location.column_start, column_end |-> location.column_end]

(***************************************************************************)
(* Position cursor (lexer/cursor.rs).  location is kept flat in the        *)
(* record: line, column_start, column_end.                                 *)
(***************************************************************************)
\* impl From<&Source> for Cursor, with TokenLocation::from
Cursor_from(text) ==
  [content |-> text, line |-> 0, column_start |-> 0, column_end |-> 0,
   index |-> 0, offset |-> 0]

is_eof(c) == c.index >= ByteLen(c.content)

\* chars().nth(offset) counts characters
peek(c) ==
  IF is_eof(c) THEN None
  ELSE IF c.offset < Len(c.content) THEN c.content[c.offset + 1] ELSE None

consume_start_only(c) ==
  IF is_eof(c) THEN c
  ELSE [c EXCEPT !.column_start = @ + 1, !.index = @ + 1, !.offset = @ + 1]

consume(c) ==
  IF is_eof(c) THEN c
  ELSE [c EXCEPT !.column_start = @ + 1, !.column_end = @ + 1,
                 !.index = @ + 1, !.offset = @ + 1]

advance_offset_stuck(c) == c

advance_offset(c) ==
  IF is_eof(c) THEN c
  ELSE [c EXCEPT !.column_end = @ + 1, !.offset = @ + 1]

align_keeps_start(c) == [c EXCEPT !.index = c.offset]

align(c) == [c EXCEPT !.column_start = c.column_end, !.index = c.offset]

remove_carriage_return(c) == [c EXCEPT !.content = Remove(@, c.offset)]

new_line_keeps_columns(c) ==
  IF is_eof(c) THEN c
  ELSE [c EXCEPT !.line = @ + 1, !.index = c.offset, !.offset = @ + 1]

\* with TokenLocation::advance_line
new_line(c) ==
  IF is_eof(c) THEN c
  ELSE [c EXCEPT !.line = @ + 1, !.column_start = 0, !.column_end = 0,
                 !.index = c.offset, !.offset = @ + 1]

\* cursor.source().content()[cursor.index()..cursor.offset()]
Pending(c) == Slice(c.content, c.index, c.offset)

PendingOk(c) == SliceOk(c.content, c.index, c.offset)

(***************************************************************************)
(* Transitions (lexer/states.rs) and the body of the loop of Lexer::next.  *)
(***************************************************************************)
\* TransitionKind::apply
apply(kind, c) ==
  CASE kind = "Consume" -> consume(c)
    [] kind = "AdvanceOffset" -> advance_offset(c)
    [] kind = "Empty" -> c
    [] kind = "EmitToken" -> align(c)
    [] kind = "End" -> c

\* one iteration of the loop of Lexer::next on Ok(transition): c is the
\* cursor as the visit left it, token the payload of EmitToken.  No state
\* returns Err, so the Err arm is never taken and errors stays empty.
Proceed(next_state, kind, c, token) ==
  /\ state' = next_state
  /\ cursor' = apply(kind, c)
  /\ tokens' = IF kind = "EmitToken" THEN Append(tokens, token) ELSE tokens
  /\ gaps' = IF kind = "EmitToken" THEN Append(gaps, gap) ELSE gaps
  /\ gap' = IF kind = "EmitToken" THEN 0
            ELSE IF state = "Start" /\ next_state = "Start" /\ kind = "Consume"
                 THEN gap + 1 ELSE gap
  /\ nones' = IF kind = "End" THEN nones + 1 ELSE nones
  /\ UNCHANGED <<errors, panicked, input, parserVars>>

\* a slice or a removal off a character boundary stops the process
Panic ==
  /\ panicked' = TRUE
  /\ UNCHANGED <<cursor, state, tokens, errors, nones, input, gap, gaps, parserVars>>

Running == ~panicked /\ nones < MaxNones

NoToken(c) == Token_new("TokenUnknown", <<>>, c)

\* Transition::new: the state to go to and the TransitionKind, with the
\* cursor as the visit left it and the payload of EmitToken
Transition_new(next_state, kind, c, token) ==
  [panics |-> FALSE, state |-> next_state, kind |-> kind, cursor |-> c,
   token |-> token]

\* the visit stops the process instead of returning a transition
Panics == [panics |-> TRUE]

StateStart_visit(cursor_) ==
  LET c == peek(cursor_) IN
  IF c = None THEN Transition_new("EOF", "Consume", cursor_, NoToken(cursor_))
  ELSE IF c = SPACE \/ c = TAB
    THEN Transition_new("Start", "Consume", cursor_, NoToken(cursor_))
  ELSE IF c = CARRIAGE_RETURN
    THEN IF RemoveOk(cursor_.content, cursor_.offset)
         THEN Transition_new("Start", "Empty", remove_carriage_return(cursor_),
                             NoToken(cursor_))
         ELSE Panics
  ELSE IF c = DOUBLE_QUOTE
    THEN Transition_new("String", "AdvanceOffset", cursor_, NoToken(cursor_))
  ELSE IF is_alphabetic(c) \/ c = UNDERSCORE
    THEN Transition_new("Word", "AdvanceOffset", cursor_, NoToken(cursor_))
  ELSE IF is_symbol(c)
    THEN Transition_new("Symbol", "Empty", cursor_, NoToken(cursor_))
  ELSE IF c = HASH
    THEN Transition_new("Comment", "AdvanceOffset", cursor_, NoToken(cursor_))
  ELSE IF is_ascii_digit(c)
    THEN Transition_new("Number", "AdvanceOffset", cursor_, NoToken(cursor_))
  ELSE LET c1 == advance_offset(cursor_) IN
       Transition_new("Start", "EmitToken", c1, Token_new("TokenUnknown", <<c>>, c1))

StateString_visit(cursor_) ==
  LET c == peek(cursor_) IN
  IF c = None THEN Transition_new("EOF", "Consume", cursor_, NoToken(cursor_))
  ELSE IF c # DOUBLE_QUOTE
    THEN Transition_new("String", "AdvanceOffset", cursor_, NoToken(cursor_))
  ELSE LET c1 == advance_offset(cursor_) IN
       IF PendingOk(c1)
       THEN Transition_new("Start", "EmitToken", c1,
                           Token_new("TokenLiteral(Str)", Pending(c1), c1))
       ELSE Panics

StateComment_visit(cursor_) ==
  LET c == peek(cursor_) IN
  IF c # None /\ c # NEW_LINE /\ c # CARRIAGE_RETURN
  THEN Transition_new("Comment", "AdvanceOffset", cursor_, NoToken(cursor_))
  ELSE IF PendingOk(cursor_)
       THEN Transition_new("Start", "EmitToken", cursor_,
                           Token_new("TokenComment", Pending(cursor_), cursor_))
       ELSE Panics

StateNumber_visit(cursor_) ==
  LET c == peek(cursor_) IN
  IF c # None /\ (is_ascii_digit(c) \/ c = DOT)
  THEN Transition_new("Number", "AdvanceOffset", cursor_, NoToken(cursor_))
  ELSE IF PendingOk(cursor_)
       THEN Transition_new("Start", "EmitToken", cursor_,
                           Token_new(TokenKind_from(Pending(cursor_)),
                                     Pending(cursor_), cursor_))
       ELSE Panics

StateWord_visit(cursor_) ==
  LET c == peek(cursor_) IN
  IF c # None /\ (is_alphanumeric(c) \/ c = UNDERSCORE)
  THEN Transition_new("Word", "AdvanceOffset", cursor_, NoToken(cursor_))
  ELSE IF PendingOk(cursor_)
       THEN Transition_new("Start", "EmitToken", cursor_,
                           Token_new(TokenKind_from(Pending(cursor_)),
                                     Pending(cursor_), cursor_))
       ELSE Panics

valid_token_at_end_of_line == {"TokenAssign"}

StateSymbol_visit(cursor_) ==
  LET c == peek(cursor_) IN
  IF c = None THEN Transition_new("EOF", "Consume", cursor_, NoToken(cursor_))
  ELSE IF c = NEW_LINE
    THEN IF ~PendingOk(cursor_) THEN Panics
         ELSE IF TokenKind_from(Pending(cursor_)) \in valid_token_at_end_of_line
              THEN Transition_new("Start", "EmitToken", cursor_,
                                  Token_new(TokenKind_from(Pending(cursor_)),
                                            Pending(cursor_), cursor_))
              ELSE Transition_new("Start", "EmitToken", new_line(cursor_),
                                  Token_new("TokenNewLine", <<BACKSLASH, "n">>, cursor_))
  ELSE IF can_be_followed_by_another_symbol(c)
    THEN Transition_new("Symbol", "AdvanceOffset", cursor_, NoToken(cursor_))
  ELSE IF is_symbol(c)
    THEN IF SliceOk(cursor_.content, cursor_.index, cursor_.offset + 1)
         THEN LET lexeme == Slice(cursor_.content, cursor_.index, cursor_.offset + 1)
                  c1 == advance_offset(cursor_)
              IN  Transition_new("Start", "EmitToken", c1,
                                 Token_new(TokenKind_from(lexeme), lexeme, c1))
         ELSE Panics
  ELSE IF PendingOk(cursor_)
       THEN Transition_new("Start", "EmitToken", cursor_,
                           Token_new(TokenKind_from(Pending(cursor_)),
                                     Pending(cursor_), cursor_))
       ELSE Panics

StateEOF_visit(cursor_) ==
  LET c1 == align(cursor_) IN
  Transition_new("End", "EmitToken", c1, Token_new("TokenEOF", <<>>, c1))

StateEnd_restarts(cursor_) ==
  Transition_new("EOF", "End", cursor_, NoToken(cursor_))

StateEnd_visit(cursor_) ==
  Transition_new("End", "End", cursor_, NoToken(cursor_))

\* self.state.visit(&mut self.cursor) followed by the match on its result
Take(transition) ==
  IF transition.panics THEN Panic
  ELSE Proceed(transition.state, transition.kind, transition.cursor,
               transition.token)

VisitStart == Running /\ state = "Start" /\ Take(StateStart_visit(cursor))

VisitString == Running /\ state = "String" /\ Take(StateString_visit(cursor))

VisitComment == Running /\ state = "Comment" /\ Take(StateComment_visit(cursor))

VisitNumber == Running /\ state = "Number" /\ Take(StateNumber_visit(cursor))

VisitWord == Running /\ state = "Word" /\ Take(StateWord_visit(cursor))

VisitSymbol == Running /\ state = "Symbol" /\ Take(StateSymbol_visit(cursor))

VisitEOF == Running /\ state = "EOF" /\ Take(StateEOF_visit(cursor))

VisitEnd == Running /\ state = "End" /\ Take(StateEnd_visit(cursor))

(***************************************************************************)
(* Input texts.                                                            *)
(***************************************************************************)
Alphabet ==
  {SPACE, NEW_LINE, CARRIAGE_RETURN, DOUBLE_QUOTE, "a", "1", DOT, HASH,
   PLUS, MINUS, ASSIGN, GREATER, AT_SIGN, POUND, E_ACUTE}

\* every text of at most n characters of Alphabet
TextsUpTo(n) == UNION {[1..k -> Alphabet] : k \in 0..n}

\* longer texts that bring in the tab, the keywords and the other symbols
Samples ==
  { <<UNDERSCORE, "x", COLON, SPACE, "i", "n", "t", SPACE, ASSIGN, SPACE, "0", NEW_LINE>>,
    <<"a", TAB, "b", CARRIAGE_RETURN, NEW_LINE, "b">>,
    <<HASH, SPACE, "a", NEW_LINE>>,
    <<"a", SPACE, PLUS, PLUS, SPACE, "a", MINUS, GREATER, OPEN_PAREN, CLOSE_PAREN>> }

\* '<identifier>: int = <digits>\n'
Declaration(identifier, digits) ==
  identifier \o <<COLON, SPACE, "i", "n", "t", SPACE, ASSIGN, SPACE>> \o digits
    \o <<NEW_LINE>>

\* lexemes that StateWord cuts out and TokenKind::from classifies Identifier
Identifiers == {<<"a">>, <<"x", "1">>, <<UNDERSCORE, "x">>, <<E_ACUTE>>, <<"a", E_ACUTE>>}

Digits == {<<"0">>, <<"1", "0">>}

Declarations == {Declaration(i, d) : i \in Identifiers, d \in Digits}

Texts == TextsUpTo(MaxLen) \cup Samples \cup Declarations

\* Lexer::new
Init ==
  /\ input \in Texts
  /\ cursor = Cursor_from(input)
  /\ state = "Start"
  /\ tokens = <<>>
  /\ errors = <<>>
  /\ nones = 0
  /\ panicked = FALSE
  /\ gap = 0
  /\ gaps = <<>>
  /\ ParserUnused

Next ==
  \/ VisitStart
  \/ VisitString
  \/ VisitComment
  \/ VisitNumber
  \/ VisitWord
  \/ VisitSymbol
  \/ VisitEOF
  \/ VisitEnd

Spec == Init /\ [][Next]_vars

\* the driver keeps pulling: a step that can be taken is taken
FairSpec == Spec /\ WF_vars(Next)

(***************************************************************************)
(* Vocabulary of the properties.                                           *)
(***************************************************************************)
\* the iterator has returned None at least once
Exhausted == nones > 0

\* no further step is taken: the iterator is exhausted or the process stopped
Stopped == Exhausted \/ panicked

RECURSIVE Concat(_)
\* the lexemes of a token sequence, concatenated in order
Concat(ts) == IF ts = <<>> THEN <<>> ELSE Head(ts).lexeme \o Concat(Tail(ts))

NotCarriageReturn(c) == c # CARRIAGE_RETURN

WithoutCarriageReturns(text) == SelectSeq(text, NotCarriageReturn)

\* the indices i such that tokens[i], tokens[i+1] are consecutive tokens
Pairs == 1..(Len(tokens) - 1)

CountKind(kind) == Cardinality({i \in 1..Len(tokens) : tokens[i].kind = kind})

\* this step yields a token
Emits == Len(tokens') = Len(tokens) + 1

\* this step yields exactly the token t
EmitsToken(t) == tokens' = Append(tokens, t)

(***************************************************************************)
(* C1.  Round trip: once the iterator is exhausted, the lexemes of the     *)
(* yielded tokens, concatenated in emission order, are the input text with *)
(* every '\r' removed.                                                     *)
(***************************************************************************)
C1_RoundTrip == Exhausted => Concat(tokens) = WithoutCarriageReturns(input)

\* this step enters the terminal path of the machine
EntersTerminalPath == state' \in {"EOF", "End"}

\* this step moves offset forward or removes a character of the text
Advances ==
  \/ cursor'.offset > cursor.offset
  \/ Len(cursor'.content) < Len(cursor.content)

\* Start hands the character to Symbol unconsumed (TransitionKind::Empty)
SymbolDispatch == state = "Start" /\ state' = "Symbol" /\ cursor' = cursor

(***************************************************************************)
(* C2.  Termination.  As claimed: every run reaches exhaustion, and every  *)
(* step that neither emits a token nor enters the terminal path (EOF, End) *)
(* strictly increases offset or shortens the text.                         *)
(***************************************************************************)
C2_Original ==
  /\ <>Exhausted
  /\ [][(~Emits /\ ~EntersTerminalPath) => Advances]_vars

\* C2, amended: every run stops after finitely many steps (exhausted, or
\* stopped fatally on the inputs of C10); every step that neither emits nor
\* enters the terminal path nor stops the process increases offset, shortens
\* the text, or is the dispatch from Start to Symbol, which leaves the
\* cursor as it is and leads to a state other than Start.
C2_Termination ==
  /\ <>Stopped
  /\ [][(~Emits /\ ~EntersTerminalPath /\ ~panicked')
          => (Advances \/ SymbolDispatch)]_vars

\* an exhausted run over a text of three or more characters that went
\* through the Symbol dispatch
C2_Witness ==
  /\ Exhausted
  /\ Len(input) >= 3
  /\ \E i \in 1..Len(tokens) : tokens[i].kind = "TokenRightArrow"

(***************************************************************************)
(* C3.  Once the run has stopped, the yielded tokens hold exactly one EOF  *)
(* token, it is the last one, and its lexeme is empty.                     *)
(***************************************************************************)
C3_OneEOF ==
  Stopped =>
    /\ CountKind("TokenEOF") = 1
    /\ tokens[Len(tokens)].kind = "TokenEOF"
    /\ tokens[Len(tokens)].lexeme = <<>>

\* a character that falls through to the last Some(c) arm of StateStart
IsUnknownChar(c) ==
  /\ c \notin {None, SPACE, TAB, CARRIAGE_RETURN, DOUBLE_QUOTE, UNDERSCORE, HASH}
  /\ ~is_alphabetic(c)
  /\ ~is_ascii_digit(c)
  /\ ~is_symbol(c)

\* an Unknown token has been yielded
HasUnknown == \E i \in 1..Len(tokens) : tokens[i].kind = "TokenUnknown"

(***************************************************************************)
(* C4.  Unknown-character resilience: a Start step on a character that is  *)
(* none of space, tab, '\r', '"', letter, '_', digit, '#', symbol yields   *)
(* exactly one Unknown token carrying that character, and once an Unknown  *)
(* token has been yielded the run is never stopped short of EOF.           *)
(***************************************************************************)
C4_UnknownResilience ==
  [][/\ (Running /\ state = "Start" /\ IsUnknownChar(peek(cursor)))
          => /\ Emits
             /\ tokens'[Len(tokens')].kind = "TokenUnknown"
             /\ tokens'[Len(tokens')].lexeme = <<peek(cursor)>>
     /\ HasUnknown => ~panicked']_vars

IsLineBreak(t) == t.kind = "TokenNewLine" /\ t.lexeme = <<BACKSLASH, "n">>

C7_SymbolThenNewLine ==
  [][(Running /\ state = "Symbol" /\ peek(cursor) = NEW_LINE /\ PendingOk(cursor))
       => IF Pending(cursor) # <<>>
          THEN EmitsToken(Token_new(TokenKind_from(Pending(cursor)),
                                    Pending(cursor), cursor))
          ELSE Emits /\ tokens'[Len(tokens')].kind = "TokenNewLine"]_vars

(***************************************************************************)
(* C8.  Multi-character operators: the Symbol state, holding the text from *)
(* the token start, yields '->' as RightArrow and '=>' as RightDoubleArrow *)
(* when '>' comes next, and yields a pending '++' as PlusPlus whatever     *)
(* comes next.                                                             *)
(***************************************************************************)
C8_MultiCharOperators ==
  [][(Running /\ state = "Symbol" /\ PendingOk(cursor))
       => /\ (Pending(cursor) = <<MINUS>> /\ peek(cursor) = GREATER)
               => EmitsToken(Token_new("TokenRightArrow", RIGHT_ARROW,
                                       advance_offset(cursor)))
          /\ (Pending(cursor) = <<ASSIGN>> /\ peek(cursor) = GREATER)
               => EmitsToken(Token_new("TokenRightDoubleArrow", RIGHT_DOUBLE_ARROW,
                                       advance_offset(cursor)))
          /\ Pending(cursor) = PLUS_PLUS
               => EmitsToken(Token_new("TokenPlusPlus", PLUS_PLUS, cursor))]_vars

(***************************************************************************)
(* C9.  Cursor bounds: index <= offset <= len(text) in every state.        *)
(***************************************************************************)
C9_CursorBounds ==
  /\ cursor.index <= cursor.offset
  /\ cursor.offset <= ByteLen(cursor.content)

(***************************************************************************)
(* C10.  Lexing never aborts: the process is never stopped by a panic, and *)
(* no lexical problem is reported other than as a token.                   *)
(***************************************************************************)
C10_NeverAborts == ~panicked /\ errors = <<>>

(***************************************************************************)
(* C11.  Unterminated string: a String step that finds the end of input    *)
(* yields an Unknown token and goes back to Start; it does not go to EOF   *)
(* without a token.                                                        *)
(***************************************************************************)
C11_UnterminatedString ==
  [][(Running /\ state = "String" /\ peek(cursor) = None)
       => /\ Emits
          /\ tokens'[Len(tokens')].kind = "TokenUnknown"
          /\ state' = "Start"]_vars

(***************************************************************************)
(* Classification on its own: TokenKind::from applied to a lexeme that is  *)
(* not cut out of a text by the state machine.  input holds the lexeme and *)
(* tokens receives the token built from it.                                *)
(***************************************************************************)
ClassifyInit ==
  /\ input \in Texts
  /\ cursor = Cursor_from(input)
  /\ state = "Classify"
  /\ tokens = <<>>
  /\ errors = <<>>
  /\ nones = 0
  /\ panicked = FALSE
  /\ gap = 0
  /\ gaps = <<>>
  /\ ParserUnused

Classify ==
  /\ state = "Classify"
  /\ state' = "Classified"
  /\ tokens' = <<Token_new(TokenKind_from(input), input, cursor)>>
  /\ UNCHANGED <<cursor, errors, nones, panicked, input, gap, gaps, parserVars>>

ClassifyNext == Classify

ClassifySpec == ClassifyInit /\ [][ClassifyNext]_vars

\* only digits, at least one
IsDigits(lexeme) ==
  lexeme # <<>> /\ \A i \in 1..Len(lexeme) : is_ascii_digit(lexeme[i])

\* only digits and '.', at least one of each
IsDigitsWithDot(lexeme) ==
  /\ \A i \in 1..Len(lexeme) : is_ascii_digit(lexeme[i]) \/ lexeme[i] = DOT
  /\ \E i \in 1..Len(lexeme) : is_ascii_digit(lexeme[i])
  /\ \E i \in 1..Len(lexeme) : lexeme[i] = DOT

\* something other than a digit or a '.' occurs in the lexeme
HasOtherChar(lexeme) ==
  \E i \in 1..Len(lexeme) : ~is_ascii_digit(lexeme[i]) /\ lexeme[i] # DOT

(***************************************************************************)
(* C12.  Classification: a lexeme of digits only classifies as Literal     *)
(* Int, a lexeme of digits with '.' as Literal Float, and the empty        *)
(* lexeme, the lone '.' and every lexeme holding any other character       *)
(* classify as neither.                                                    *)
(***************************************************************************)
C12_Classification ==
  state = "Classified" =>
    LET kind == tokens[1].kind IN
    /\ IsDigits(input) => kind = "TokenLiteral(Int)"
    /\ IsDigitsWithDot(input) => kind = "TokenLiteral(Float)"
    /\ (input = <<>> \/ input = <<DOT>> \/ HasOtherChar(input))
         => kind \notin {"TokenLiteral(Int)", "TokenLiteral(Float)"}

\* the kind that the TokenKind enum declares for a one-character symbol
SymbolKind(c) ==
  CASE c = NEW_LINE -> "TokenNewLine"
    [] c = DOT -> "TokenDot"
    [] c = COLON -> "TokenColon"
    [] c = SEMICOLON -> "TokenSemicolon"
    [] c = ASSIGN -> "TokenAssign"
    [] c = SINGLE_QUOTE -> "TokenSingleQuote"
    [] c = OPEN_PAREN -> "TokenOpenParen"
    [] c = CLOSE_PAREN -> "TokenCloseParen"
    [] c = OPEN_BRACKET -> "TokenOpenBrace"
    [] c = CLOSE_BRACKET -> "TokenCloseBrace"
    [] c = OPEN_BRACE -> "TokenOpenBracket"
    [] c = CLOSE_BRACE -> "TokenCloseBracket"
    [] c = COMMA -> "TokenComma"
    [] c = GREATER -> "TokenGreater"
    [] c = PIPE -> "TokenPipe"
    [] c = PLUS -> "TokenPlus"
    [] c = MINUS -> "TokenMinus"
    [] c = STAR -> "TokenStar"
    [] c = SLASH -> "TokenSlash"
    [] OTHER -> None

\* the text has one-byte characters only: byte and character positions agree
OneByteText == ByteLen(cursor.content) = Len(cursor.content)

\* the character at byte position b of the text (from 0) is there and is not
\* a symbol
NonSymbolAt(b) ==
  b >= 0 /\ b < Len(cursor.content) /\ ~is_symbol(cursor.content[b + 1])

\* the Symbol state is about to yield the symbol c, which stands alone
\* between two characters that are not symbols
AloneSymbol(c) ==
  /\ Running /\ state = "Symbol" /\ OneByteText
  /\ SymbolKind(c) # None
  /\ NonSymbolAt(cursor.index - 1)
  /\ \/ /\ ~can_be_followed_by_another_symbol(c)
        /\ cursor.offset = cursor.index
        /\ peek(cursor) = c
        /\ NonSymbolAt(cursor.offset + 1)
     \/ /\ can_be_followed_by_another_symbol(c)
        /\ cursor.offset = cursor.index + 1
        /\ Pending(cursor) = <<c>>
        /\ NonSymbolAt(cursor.offset)

(***************************************************************************)
(* C13.  One kind per punctuation symbol: a symbol character standing      *)
(* alone between two characters that are not symbols is yielded as a token *)
(* of the kind declared for it, never as Identifier, Literal or Unknown.   *)
(***************************************************************************)
C13_OneKindPerSymbol ==
  [][\A c \in Alphabet \cup {COLON, OPEN_PAREN, CLOSE_PAREN, COMMA, PIPE, STAR, SLASH} :
       AloneSymbol(c) => /\ Emits
                         /\ tokens'[Len(tokens')].kind = SymbolKind(c)]_vars

(***************************************************************************)
(* The whole run of the lexer on a text, as a function: the loop of        *)
(* Lexer::next driven until the iterator returns None, with the tokens it  *)
(* yielded on the way.                                                     *)
(***************************************************************************)
\* self.state.visit(&mut self.cursor) by the state the lexer is in
visit(lexer_state, cursor_) ==
  CASE lexer_state = "Start" -> StateStart_visit(cursor_)
    [] lexer_state = "String" -> StateString_visit(cursor_)
    [] lexer_state = "Comment" -> StateComment_visit(cursor_)
    [] lexer_state = "Number" -> StateNumber_visit(cursor_)
    [] lexer_state = "Word" -> StateWord_visit(cursor_)
    [] lexer_state = "Symbol" -> StateSymbol_visit(cursor_)
    [] lexer_state = "EOF" -> StateEOF_visit(cursor_)
    [] lexer_state = "End" -> StateEnd_visit(cursor_)

RECURSIVE Drive(_, _, _)
Drive(lexer_state, cursor_, yielded) ==
  LET transition == visit(lexer_state, cursor_) IN
  IF transition.panics THEN [tokens |-> yielded, panicked |-> TRUE]
  ELSE IF transition.kind = "End" THEN [tokens |-> yielded, panicked |-> FALSE]
  ELSE Drive(transition.state, apply(transition.kind, transition.cursor),
             IF transition.kind = "EmitToken"
             THEN Append(yielded, transition.token) ELSE yielded)

\* Lexer::new(&source).collect()
Lex(text) == Drive("Start", Cursor_from(text), <<>>)

RECURSIVE WithCarriageReturns(_)
\* the text with every '\n' replaced by '\r\n'
WithCarriageReturns(text) ==
  IF text = <<>> THEN <<>>
  ELSE (IF Head(text) = NEW_LINE THEN <<CARRIAGE_RETURN, NEW_LINE>> ELSE <<Head(text)>>)
       \o WithCarriageReturns(Tail(text))

\* no '\r' in the text
IsLFOnly(text) == \A i \in 1..Len(text) : text[i] # CARRIAGE_RETURN

(***************************************************************************)
(* C14.  Carriage-return transparency: when the lexer has finished on a    *)
(* text without '\r', the lexer run on the same text with every '\n'       *)
(* replaced by '\r\n' finishes too and yields the same tokens (kinds,      *)
(* lexemes, locations), none of them holding a '\r'.                       *)
(***************************************************************************)
C14_CarriageReturnTransparency ==
  (Exhausted /\ IsLFOnly(input)) =>
    LET crlf == Lex(WithCarriageReturns(input)) IN
    /\ ~crlf.panicked
    /\ crlf.tokens = tokens
    /\ \A i \in 1..Len(crlf.tokens) :
         \A j \in 1..Len(crlf.tokens[i].lexeme) :
           crlf.tokens[i].lexeme[j] # CARRIAGE_RETURN

\* the text is '#' + c + '\n' with no '\n' and no '\r' in c
IsCommentLine(text) ==
  /\ Len(text) >= 2
  /\ text[1] = HASH
  /\ text[Len(text)] = NEW_LINE
  /\ \A i \in 2..(Len(text) - 1) : text[i] \notin {NEW_LINE, CARRIAGE_RETURN}

(***************************************************************************)
(* C15.  Comment lexing: on a text '#' + c + '\n', c without '\n' and      *)
(* '\r', the lexer finishes with exactly three tokens: a Comment whose     *)
(* lexeme is '#' + c, a NewLine and the EOF.                               *)
(***************************************************************************)
C15_CommentLexing ==
  IsCommentLine(input) =>
    /\ ~panicked
    /\ Exhausted =>
         /\ Len(tokens) = 3
         /\ tokens[1].kind = "TokenComment"
         /\ tokens[1].lexeme = SubSeq(input, 1, Len(input) - 1)
         /\ tokens[2].kind = "TokenNewLine"
         /\ tokens[3].kind = "TokenEOF"

\* the kinds of the yielded tokens, in order
Kinds == [i \in 1..Len(tokens) |-> tokens[i].kind]

(***************************************************************************)
(* C16.  Variable-declaration lexing: on '<identifier>: int = <digits>\n'  *)
(* the lexer finishes with exactly seven tokens: Identifier, Colon,        *)
(* Keyword(int), Assign, Literal Int, NewLine, EOF.                        *)
(***************************************************************************)
C16_DeclarationLexing ==
  input \in Declarations =>
    /\ ~panicked
    /\ Exhausted =>
         Kinds = <<"TokenIdentifier", "TokenColon", "TokenKeyword(IntType)",
                   "TokenAssign", "TokenLiteral(Int)", "TokenNewLine", "TokenEOF">>

(***************************************************************************)
(* Tree-building parser.  main.rs creates it with Parser::new(lexer) and   *)
(* calls parse() for the tree; its definition is not among the source      *)
(* files, so the engine and the grammar below follow the design document   *)
(* (section 4.4).  A token is represented by its kind.                     *)
(***************************************************************************)
\* longest enumerated token sequence
MaxTokens == 3

\* the initial fuel budget; the design document gives it no number
InitialFuel == 8

\* longest token sequence and most spans opened under any grammar code
MaxEngineTokens == 1

MaxSpans == 2

\* Parser::new: the token sequence as an array, nothing read, nothing logged
Parser_new(token_kinds) ==
  [tokens |-> token_kinds, pos |-> 0, fuel |-> InitialFuel, events |-> <<>>,
   fatal |-> None, lookaheads |-> 0, returned |-> None]

\* the kind of the token k positions ahead of pos, TokenEOF past the end
nth(p, k) ==
  IF p.pos + k < Len(p.tokens) THEN p.tokens[p.pos + k + 1] ELSE "TokenEOF"

after_nth_free(p) ==
  IF p.fatal # None THEN p ELSE [p EXCEPT !.lookaheads = @ + 1]

\* the parser after a call of nth: fuel is decremented, and fuel reaching
\* zero stops the whole parse
after_nth(p) ==
  IF p.fatal # None THEN p
  ELSE IF p.fuel - 1 <= 0
       THEN [p EXCEPT !.fuel = 0, !.fatal = "FuelExhausted", !.lookaheads = @ + 1]
       ELSE [p EXCEPT !.fuel = @ - 1, !.lookaheads = @ + 1]

advance_keeps_fuel(p) ==
  IF p.fatal # None THEN p
  ELSE IF p.pos >= Len(p.tokens) THEN [p EXCEPT !.fatal = "AdvanceAtEnd"]
  ELSE [p EXCEPT !.events = Append(@, [type |-> "Advance", kind |-> None]),
                 !.pos = @ + 1, !.lookaheads = 0]

\* asserts not at end, resets fuel, appends Advance, increments pos
advance(p) ==
  IF p.fatal # None THEN p
  ELSE IF p.pos >= Len(p.tokens) THEN [p EXCEPT !.fatal = "AdvanceAtEnd"]
  ELSE [p EXCEPT !.fuel = InitialFuel,
                 !.events = Append(@, [type |-> "Advance", kind |-> None]),
                 !.pos = @ + 1, !.lookaheads = 0]

\* the mark that open returns: the index of the Open event in the log
mark(p) == Len(p.events) + 1

\* appends Open with the placeholder kind
open(p) ==
  IF p.fatal # None THEN p
  ELSE [p EXCEPT !.events = Append(@, [type |-> "Open", kind |-> "ErrorTree"])]

close_forgets(p, m, kind) ==
  IF p.fatal # None THEN p
  ELSE [p EXCEPT !.events = [@ EXCEPT ![m].kind = kind]]

\* overwrites the placeholder of the Open at the mark, appends Close
close(p, m, kind) ==
  IF p.fatal # None THEN p
  ELSE [p EXCEPT !.events = Append([@ EXCEPT ![m].kind = kind],
                                   [type |-> "Close", kind |-> None])]

eat_always(p, kind) ==
  IF after_nth(p).fatal # None \/ advance(after_nth(p)).fatal # None
  THEN advance(after_nth(p))
  ELSE [advance(after_nth(p)) EXCEPT !.returned = "true"]

\* advances and returns true if the lookahead matches, else leaves the
\* position untouched and returns false; a fatal stop in nth or in advance
\* leaves nothing returned
eat(p, kind) ==
  LET looked == after_nth(p)
      advanced == advance(looked)
  IN  IF looked.fatal # None THEN looked
      ELSE IF nth(p, 0) # kind THEN [looked EXCEPT !.returned = "false"]
      ELSE IF advanced.fatal # None THEN advanced
      ELSE [advanced EXCEPT !.returned = "true"]

\* eat, and on failure a diagnostic on the side channel; no advance
expect(p, kind) == eat(p, kind)

advance_with_error_twice(p) ==
  close(advance(advance(open(p))), mark(p), "ErrorTree")

\* opens a span, advances one token, closes the span as an ErrorTree
advance_with_error(p) == close(advance(open(p)), mark(p), "ErrorTree")

(***************************************************************************)
(* The grammar.                                                            *)
(***************************************************************************)
LiteralKinds ==
  {"TokenLiteral(Int)", "TokenLiteral(Float)", "TokenLiteral(Bool)", "TokenLiteral(Str)"}

\* a comment is a leaf span of its own
parse_comment(p) == close(advance(open(p)), mark(p), "Comment")

\* a literal wrapped in ExprLiteral; nothing else is an expression yet
parse_expr(p) ==
  IF nth(p, 0) \in LiteralKinds
  THEN close(advance(open(after_nth(p))), mark(p), "ExprLiteral")
  ELSE after_nth(p)

RECURSIVE parse_type(_)
RECURSIVE parse_type_list(_)
\* a bare identifier, a bracketed type or a parenthesized list of types
\* separated by commas, each wrapped in TypeExpr; else advance_with_error
parse_type(p) ==
  LET k == nth(p, 0)
      q == after_nth(p)
  IN  IF q.fatal # None THEN q
      ELSE IF k = "TokenIdentifier"
        THEN close(advance(open(q)), mark(q), "TypeExpr")
      ELSE IF k = "TokenOpenBracket"
        THEN close(expect(parse_type(advance(open(q))), "TokenCloseBracket"),
                   mark(q), "TypeExpr")
      ELSE IF k = "TokenOpenParen"
        THEN close(expect(parse_type_list(advance(open(q))), "TokenCloseParen"),
                   mark(q), "TypeExpr")
      ELSE advance_with_error(q)

\* the types between the parentheses, up to ')' or the end of the tokens
parse_type_list(p) ==
  LET k == nth(p, 0)
      q == after_nth(p)
  IN  IF q.fatal # None \/ k \in {"TokenCloseParen", "TokenEOF"} THEN q
      ELSE LET r == parse_type(q) IN
           IF nth(r, 0) = "TokenComma"
           THEN parse_type_list(eat(r, "TokenComma"))
           ELSE eat(r, "TokenComma")

\* Ident : Type = Expr, wrapped in StmtVarDecl
parse_var_decl(p) ==
  close(parse_expr(expect(parse_type(expect(expect(open(p), "TokenIdentifier"),
                                            "TokenColon")),
                          "TokenAssign")),
        mark(p), "StmtVarDecl")

\* an expression as a statement, wrapped in StmtExpr
parse_expr_stmt(p) == close(parse_expr(open(p)), mark(p), "StmtExpr")

\* the parser after n calls of nth in a row
RECURSIVE after_lookaheads(_, _)
after_lookaheads(p, n) == IF n = 0 THEN p ELSE after_lookaheads(after_nth(p), n - 1)

\* the rule that parse_file dispatches to on the lookahead
Dispatch(p) ==
  IF nth(p, 0) = "TokenEOF" THEN "End"
  ELSE IF nth(p, 0) = "TokenComment" THEN "Comment"
  ELSE IF nth(p, 0) = "TokenIdentifier" /\ nth(p, 1) = "TokenColon"
    THEN IF nth(p, 2) = "TokenOpenParen" THEN "FunctionDecl" ELSE "VarDecl"
  ELSE IF nth(p, 0) \in LiteralKinds THEN "ExprStmt"
  ELSE "Unexpected"

\* the calls of nth that the loop test and the dispatch make: nth(0) for the
\* test, then nth(0), and nth(1) and nth(2) as far as the dispatch looks
DispatchCalls(p) ==
  IF nth(p, 0) = "TokenEOF" THEN 1
  ELSE IF nth(p, 0) # "TokenIdentifier" THEN 2
  ELSE IF nth(p, 1) # "TokenColon" THEN 3
  ELSE 4

Dispatched(p) == after_lookaheads(p, DispatchCalls(p))

(***************************************************************************)
(* parse_file, one step per turn of its loop.                              *)
(***************************************************************************)
ParserKinds ==
  {"TokenComment", "TokenIdentifier", "TokenColon", "TokenAssign",
   "TokenLiteral(Int)", "TokenNewLine", "TokenOpenParen", "TokenCloseParen",
   "TokenOpenBracket", "TokenCloseBracket", "TokenComma", "TokenEOF"}

\* a declaration whose type opens as many brackets as there is fuel and
\* closes none
DeepNesting ==
  <<"TokenIdentifier", "TokenColon">>
    \o [i \in 1..InitialFuel |-> "TokenOpenBracket"] \o <<"TokenIdentifier">>

\* longer sequences: the declaration of C16 as the lexer yields it, a
\* declaration with a list type, two statements around a stray token, the
\* deep nesting, and a declaration with a bracketed type that no
\* end-of-file token follows
TokenSamples ==
  { <<"TokenIdentifier", "TokenColon", "TokenIdentifier", "TokenAssign",
      "TokenLiteral(Int)", "TokenNewLine", "TokenEOF">>,
    <<"TokenIdentifier", "TokenColon", "TokenOpenBracket", "TokenOpenParen",
      "TokenIdentifier", "TokenComma", "TokenIdentifier", "TokenCloseParen",
      "TokenCloseBracket", "TokenAssign", "TokenLiteral(Int)", "TokenEOF">>,
    <<"TokenLiteral(Int)", "TokenNewLine", "TokenAssign", "TokenNewLine",
      "TokenComment", "TokenNewLine", "TokenEOF">>,
    DeepNesting,
    <<"TokenIdentifier", "TokenColon", "TokenOpenBracket", "TokenIdentifier",
      "TokenCloseBracket", "TokenAssign", "TokenLiteral(Int)">> }

\* every short token sequence, and the longer ones
TokenSeqs == UNION {[1..k -> ParserKinds] : k \in 0..MaxTokens} \cup TokenSamples

\* the lexer is not part of a run of the parser on a token collection
LexerUnused ==
  /\ input = <<>>
  /\ cursor = Cursor_from(input)
  /\ state = "Start"
  /\ tokens = <<>>
  /\ errors = <<>>
  /\ nones = 0
  /\ panicked = FALSE
  /\ gap = 0
  /\ gaps = <<>>

ParserInit ==
  /\ LexerUnused
  /\ parser \in {Parser_new(ts) : ts \in TokenSeqs}
  /\ marks = {}
  /\ phase = "File"

\* the parse goes on: no fatal stop so far
Parsing == parser.fatal = None

\* parse_file opens the File span
ParseFileOpen ==
  /\ Parsing /\ phase = "File"
  /\ parser' = open(parser)
  /\ marks' = {mark(parser)}
  /\ phase' = "Statements"
  /\ UNCHANGED lexerVars

\* parse_file is in its loop and the lookahead selects the rule
InLoop(rule) ==
  Parsing /\ phase = "Statements" /\ Dispatch(parser) = rule

\* one turn of the loop: the rule has run to its end and left the parser p
Statement(p) ==
  /\ parser' = p
  /\ UNCHANGED <<marks, phase, lexerVars>>

ParseComment ==
  /\ InLoop("Comment")
  /\ Statement(parse_comment(Dispatched(parser)))

\* function declarations are not specified: the parse stops there
ParseFunctionDecl ==
  /\ InLoop("FunctionDecl")
  /\ Statement([Dispatched(parser) EXCEPT !.fatal = "Unspecified"])

ParseVarDecl ==
  /\ InLoop("VarDecl")
  /\ Statement(parse_var_decl(Dispatched(parser)))

ParseExprStmt ==
  /\ InLoop("ExprStmt")
  /\ Statement(parse_expr_stmt(Dispatched(parser)))

ParseUnexpected ==
  /\ InLoop("Unexpected")
  /\ Statement(advance_with_error(Dispatched(parser)))

\* the loop ends on the end-of-file token; parse_file closes the File span
ParseFileClose ==
  /\ InLoop("End")
  /\ parser' = (LET m == CHOOSE m \in marks : TRUE IN close(Dispatched(parser), m, "File"))
  /\ marks' = {}
  /\ phase' = IF Dispatched(parser).fatal = None THEN "Done" ELSE phase
  /\ UNCHANGED lexerVars

ParserNext ==
  \/ ParseFileOpen
  \/ ParseComment
  \/ ParseFunctionDecl
  \/ ParseVarDecl
  \/ ParseExprStmt
  \/ ParseUnexpected
  \/ ParseFileClose

ParserSpec == ParserInit /\ [][ParserNext]_vars

(***************************************************************************)
(* The engine under any grammar code: the calls a rule can make, in any    *)
(* order.  A rule closes only marks that open gave it, each once.          *)
(***************************************************************************)
TreeKinds ==
  {"File", "StmtVarDecl", "TypeExpr", "StmtExpr", "ExprLiteral", "Comment", "ErrorTree"}

EngineKinds == {"TokenIdentifier", "TokenEOF"}

\* the kinds that the rules close their spans with
ClosingKinds == {"TypeExpr", "ErrorTree"}

\* the spans opened so far
Spans(p) == Cardinality({i \in 1..Len(p.events) : p.events[i].type = "Open"})

EngineInit ==
  /\ LexerUnused
  /\ parser \in {Parser_new(ts) :
                   ts \in UNION {[1..k -> EngineKinds] : k \in 0..MaxEngineTokens}}
  /\ marks = {}
  /\ phase = "Rules"

\* a rule is running
InRule == Parsing /\ phase = "Rules"

\* a call that leaves the marks alone
Call(p) ==
  /\ parser' = p
  /\ UNCHANGED <<marks, phase, lexerVars>>

CallNth ==
  /\ InRule
  /\ \E k \in 0..MaxEngineTokens : Call(after_nth(parser))

CallAdvance ==
  /\ InRule
  /\ Call(advance(parser))

CallOpen ==
  /\ InRule
  /\ Spans(parser) < MaxSpans
  /\ parser' = open(parser)
  /\ marks' = marks \cup {mark(parser)}
  /\ UNCHANGED <<phase, lexerVars>>

CallClose ==
  /\ InRule
  /\ \E m \in marks, kind \in ClosingKinds :
       /\ parser' = close(parser, m, kind)
       /\ marks' = marks \ {m}
  /\ UNCHANGED <<phase, lexerVars>>

CallEat ==
  /\ InRule
  /\ \E kind \in EngineKinds : Call(eat(parser, kind))

CallExpect ==
  /\ InRule
  /\ \E kind \in EngineKinds : Call(expect(parser, kind))

CallAdvanceWithError ==
  /\ InRule
  /\ Spans(parser) < MaxSpans
  /\ Call(advance_with_error(parser))

EngineNext ==
  \/ CallNth
  \/ CallAdvance
  \/ CallOpen
  \/ CallClose
  \/ CallEat
  \/ CallExpect
  \/ CallAdvanceWithError

EngineSpec == EngineInit /\ [][EngineNext]_vars

(***************************************************************************)
(* Vocabulary of the properties of the parser.                             *)
(***************************************************************************)
\* the events of the given type among the first n of the log
Count(type, n) ==
  Cardinality({i \in 1..n : parser.events[i].type = type})

\* parse_file has returned
Finished == phase = "Done" /\ parser.fatal = None

(***************************************************************************)
(* C18.  Balanced event log: in every prefix of the event log there are at *)
(* most as many Close events as Open events, and when parse_file has       *)
(* returned there are as many, every Open closed once.                     *)
(***************************************************************************)
C18_BalancedLog ==
  /\ \A n \in 0..Len(parser.events) : Count("Close", n) <= Count("Open", n)
  /\ Finished => Count("Close", Len(parser.events)) = Count("Open", Len(parser.events))

\* parse_file has returned with spans inside spans: File, StmtVarDecl,
\* TypeExpr and ExprLiteral at least
C18_Witness ==
  /\ Finished
  /\ Count("Open", Len(parser.events)) >= 4
  /\ \E i \in 1..Len(parser.events) : parser.events[i].kind = "StmtVarDecl"

(***************************************************************************)
(* C19.  Fuel guard: nth() is never called more often than the initial     *)
(* fuel budget without an advance() in between; the call that uses up the  *)
(* budget stops the parse with the fatal error, and a stopped parse takes  *)
(* no further step.                                                        *)
(***************************************************************************)
C19_FuelGuard ==
  /\ [](/\ parser.lookaheads <= InitialFuel
        /\ parser.lookaheads = InitialFuel => parser.fatal = "FuelExhausted")
  /\ [][parser.fatal = None]_vars

\* after an advance, the budget has been used up at one position
C19_Witness ==
  /\ parser.pos > 0
  /\ parser.lookaheads = InitialFuel
  /\ parser.fatal = "FuelExhausted"

Parser_consume(p) ==
  [p EXCEPT !.curr_token = IF p.lexer = <<>> THEN <<>> ELSE <<Head(p.lexer)>>,
            !.lexer = IF p.lexer = <<>> THEN <<>> ELSE Tail(p.lexer)]

\* Parser::new(source, lexer): the first token is pulled at once
Parser_from(lexer) ==
  Parser_consume([lexer |-> lexer, curr_token |-> <<>>, stmts |-> <<>>,
                  given |-> lexer])

\* the kind matched in `match self.curr_token`
curr_kind(p) == IF p.curr_token = <<>> THEN None ELSE p.curr_token[1].kind

\* a parse function has returned value and left the parser p
Returns(p, value) == [panics |-> FALSE, parser |-> p, value |-> value]

\* the digits of i64::MAX, 9223372036854775807
I64_MAX ==
  <<"9", "2", "2", "3", "3", "7", "2", "0", "3", "6", "8", "5", "4", "7", "7", "5",
    "8", "0", "7">>

\* str::parse::<i64>, ::<f64> and ::<bool> return Ok.  An i64 is an optional
\* sign and digits whose value is in the range of i64 (one more in
\* magnitude below zero); of f64's syntax only sign, digits and one '.'
\* can occur in the lexemes
parses(literal, lexeme) ==
  LET unsigned == IF lexeme # <<>> /\ Head(lexeme) \in {PLUS, MINUS}
                  THEN Tail(lexeme) ELSE lexeme
      dots == Cardinality({i \in 1..Len(unsigned) : unsigned[i] = DOT})
      zeros == Cardinality({i \in 1..Len(unsigned) :
                              \A j \in 1..i : unsigned[j] = "0"})
      digits == SubSeq(unsigned, zeros + 1, Len(unsigned))
      value(c) == CHOOSE v \in 0..9 : <<"0", "1", "2", "3", "4", "5", "6", "7", "8", "9">>[v + 1] = c
      below(max) == \E i \in 1..Len(max) :
                      /\ \A j \in 1..(i - 1) : digits[j] = max[j]
                      /\ value(digits[i]) < value(max[i])
      in_range == \/ Len(digits) < Len(I64_MAX)
                  \/ /\ Len(digits) = Len(I64_MAX)
                     /\ \/ digits = I64_MAX
                        \/ below(I64_MAX)
                        \/ /\ lexeme[1] = MINUS
                           /\ digits = [I64_MAX EXCEPT ![Len(I64_MAX)] = "8"]
  IN  CASE literal = "Int" -> IsDigits(unsigned) /\ in_range
        [] literal = "Float" -> dots <= 1 /\ (IsDigits(unsigned) \/ IsDigitsWithDot(unsigned))
        [] literal = "Bool" -> lexeme \in {KEYWORD_BOOL_TRUE, KEYWORD_BOOL_FALSE}
        [] literal = "Str" -> TRUE

\* Parser::parse_type: the type of a type keyword, todo!() otherwise; the
\* token is left in curr_token
Parser_parse_type(p) ==
  CASE curr_kind(p) = "TokenKeyword(IntType)" -> Returns(p, "Int")
    [] curr_kind(p) = "TokenKeyword(FloatType)" -> Returns(p, "Float")
    [] curr_kind(p) = "TokenKeyword(BoolType)" -> Returns(p, "Bool")
    [] curr_kind(p) = "TokenKeyword(StrType)" -> Returns(p, "Str")
    [] OTHER -> Panics

\* Parser::parse_expr with parse_literal_expr: a literal whose lexeme
\* parses, todo!() otherwise; the token is left in curr_token
Parser_parse_expr(p) ==
  LET literal == CASE curr_kind(p) = "TokenLiteral(Int)" -> "Int"
                   [] curr_kind(p) = "TokenLiteral(Float)" -> "Float"
                   [] curr_kind(p) = "TokenLiteral(Bool)" -> "Bool"
                   [] curr_kind(p) = "TokenLiteral(Str)" -> "Str"
                   [] OTHER -> None
  IN  IF literal # None /\ parses(literal, p.curr_token[1].lexeme)
      THEN Returns(p, [literal |-> literal, lexeme |-> p.curr_token[1].lexeme])
      ELSE Panics

\* Parser::parse_identifier_stmt: Identifier ':' type '=' literal NewLine,
\* todo!() at the first token that is something else
Parser_parse_identifier_stmt(p) ==
  LET lhs == p.curr_token[1]
      at_colon == Parser_consume(p)
      at_keyword == Parser_consume(at_colon)
      type_ == Parser_parse_type(at_keyword)
      at_assign == Parser_consume(at_keyword)
      at_literal == Parser_consume(at_assign)
      rhs == Parser_parse_expr(at_literal)
      at_new_line == Parser_consume(at_literal)
  IN  IF curr_kind(at_colon) # "TokenColon" THEN Panics
      ELSE IF type_.panics THEN Panics
      ELSE IF curr_kind(at_assign) # "TokenAssign" THEN Panics
      ELSE IF rhs.panics THEN Panics
      ELSE IF curr_kind(at_new_line) # "TokenNewLine" THEN Panics
      ELSE Returns(Parser_consume(at_new_line),
                   [stmt |-> "Assign", lhs |-> lhs.lexeme, type_ |-> type_.value,
                    rhs |-> rhs.value])

\* Parser::parse_stmt: only a statement that starts with an identifier
Parser_parse_stmt(p) ==
  IF curr_kind(p) = "TokenIdentifier" THEN Parser_parse_identifier_stmt(p)
  ELSE Panics

\* a token as the parser sees it: kind and lexeme
Tok(lexeme) == [kind |-> TokenKind_from(lexeme), lexeme |-> lexeme]

EndOfFile == [kind |-> "TokenEOF", lexeme |-> <<>>]

\* the tokens that the enumerated collections are made of
ParserTokens ==
  {Tok(<<"a">>), Tok(<<COLON>>), Tok(KEYWORD_INT), Tok(KEYWORD_IF), Tok(<<ASSIGN>>),
   Tok(<<"0">>), Tok(<<MINUS, DOT>>), Tok(<<NEW_LINE>>), EndOfFile}

\* the tokens of the declaration '<identifier>: <keyword> = <literal>\n'
DeclarationTokens(identifier, keyword, literal) ==
  <<Tok(identifier), Tok(<<COLON>>), Tok(keyword), Tok(<<ASSIGN>>), Tok(literal),
    Tok(<<NEW_LINE>>)>>

WellFormed == DeclarationTokens(<<"a">>, KEYWORD_INT, <<"0">>)

\* malformed statements: a declaration whose value is missing, one whose
\* type is missing, one whose value is a character the lexer knows no token
\* for, and a line that starts with '='
Malformed ==
  { <<Tok(<<"b">>), Tok(<<COLON>>), Tok(KEYWORD_INT), Tok(<<ASSIGN>>), Tok(<<NEW_LINE>>)>>,
    <<Tok(<<"b">>), Tok(<<COLON>>), Tok(<<ASSIGN>>), Tok(<<"0">>), Tok(<<NEW_LINE>>)>>,
    <<Tok(<<"b">>), Tok(<<COLON>>), Tok(KEYWORD_INT), Tok(<<ASSIGN>>),
      [kind |-> "TokenUnknown", lexeme |-> <<AT_SIGN>>], Tok(<<NEW_LINE>>)>>,
    <<Tok(<<ASSIGN>>), Tok(<<NEW_LINE>>)>> }

\* collections handed to Parser::new: every short one; declarations with
\* and without the EOF token, of the greatest i64 and of the number after
\* it; what the Lexer yields for a declaration and
\* for a declaration followed by a character it knows no token for; and a
\* malformed statement between two well-formed ones
TokenCollections ==
  UNION {[1..k -> ParserTokens] : k \in 0..MaxTokens}
    \cup {WellFormed, WellFormed \o <<EndOfFile>>,
          WellFormed \o WellFormed \o <<EndOfFile>>,
          DeclarationTokens(<<"x", "1">>, KEYWORD_STR, KEYWORD_BOOL_TRUE) \o <<EndOfFile>>,
          DeclarationTokens(<<"a">>, KEYWORD_INT, I64_MAX) \o <<EndOfFile>>,
          DeclarationTokens(<<"a">>, KEYWORD_INT, [I64_MAX EXCEPT ![19] = "8"])
            \o <<EndOfFile>>,
          Lex(Declaration(<<"a">>, <<"0">>)).tokens,
          Lex(Declaration(<<"a">>, <<"0">>) \o <<AT_SIGN>>).tokens}
    \cup {WellFormed \o malformed \o WellFormed \o <<EndOfFile>> : malformed \in Malformed}

AstInit ==
  /\ LexerUnused
  /\ parser \in {Parser_from(lexer) : lexer \in TokenCollections}
  /\ marks = {}
  /\ phase = "parse_block"

\* parse_block, `Some(TokenEOF) => break`: parse returns the Ast
ParseBlockBreak ==
  /\ phase = "parse_block"
  /\ curr_kind(parser) = "TokenEOF"
  /\ phase' = "Returned"
  /\ UNCHANGED <<parser, marks, lexerVars>>

\* parse_block, `Some(_)`: parse_stmt returns a statement, which is pushed
ParseBlockStmt ==
  /\ phase = "parse_block"
  /\ curr_kind(parser) \notin {None, "TokenEOF"}
  /\ ~Parser_parse_stmt(parser).panics
  /\ parser' = [Parser_parse_stmt(parser).parser EXCEPT
                  !.stmts = Append(@, Parser_parse_stmt(parser).value)]
  /\ UNCHANGED <<marks, phase, lexerVars>>

\* parse_block, `Some(_)`: parse_stmt runs into a todo!()
ParseBlockTodo ==
  /\ phase = "parse_block"
  /\ curr_kind(parser) \notin {None, "TokenEOF"}
  /\ Parser_parse_stmt(parser).panics
  /\ phase' = "Panicked"
  /\ UNCHANGED <<parser, marks, lexerVars>>

\* parse_block, `_ => ()`: curr_token is None and the loop takes its next
\* turn with nothing changed
ParseBlockNone ==
  /\ phase = "parse_block"
  /\ curr_kind(parser) = None
  /\ UNCHANGED vars

AstNext ==
  \/ ParseBlockBreak
  \/ ParseBlockStmt
  \/ ParseBlockTodo
  \/ ParseBlockNone

\* the loop keeps running: a turn that can be taken is taken
AstSpec == AstInit /\ [][AstNext]_vars /\ WF_vars(AstNext)

(***************************************************************************)
(* C21.  Parse termination: on every finite token collection, with or      *)
(* without an EOF token at its end, parse() eventually stops, by returning *)
(* the tree or by a fatal stop; the loop of parse_block does not go on     *)
(* forever.                                                                *)
(***************************************************************************)
C21_ParseTermination == <>(phase \in {"Returned", "Panicked"})

(***************************************************************************)
(* Vocabulary of the properties of the typed parser.                       *)
(***************************************************************************)
\* the statement that the well-formed declaration parses to on its own
Alone == Parser_parse_stmt(Parser_from(WellFormed \o <<EndOfFile>>)).value

\* the collection is a well-formed statement, a malformed one and another
\* well-formed one
Sandwiched ==
  \E malformed \in Malformed :
    parser.given = WellFormed \o malformed \o WellFormed \o <<EndOfFile>>

\* the parse is over
ParseOver == phase \in {"Returned", "Panicked"}

(***************************************************************************)
(* C22.  Error containment: the parse of a well-formed statement, one      *)
(* malformed statement and another well-formed statement returns a result  *)
(* that holds both well-formed statements, each parsed as on its own, and  *)
(* at most one node for the malformed one.                                 *)
(***************************************************************************)
C22_ErrorContainment ==
  (Sandwiched /\ ParseOver)
    => /\ phase = "Returned"
       /\ Len(parser.stmts) \in {2, 3}
       /\ parser.stmts[1] = Alone
       /\ parser.stmts[Len(parser.stmts)] = Alone

(***************************************************************************)
(* Vocabulary of the properties of the engine.                             *)
(***************************************************************************)
\* the three events of a span of kind ErrorTree around one token
ErrorLeaf ==
  <<[type |-> "Open", kind |-> "ErrorTree"], [type |-> "Advance", kind |-> None],
    [type |-> "Close", kind |-> None]>>

\* the step has appended an ErrorTree span around one token and moved pos
\* by one
SkipsOneToken ==
  /\ parser'.events = parser.events \o ErrorLeaf
  /\ parser'.pos = parser.pos + 1
  /\ parser'.fatal = None

\* C23 as stated, for every call: violated by the call at the end of the
\* token array
C23_Original == [][CallAdvanceWithError => SkipsOneToken]_vars

(***************************************************************************)
(* C23.  Single-token recovery: each call of advance_with_error before the *)
(* end of the token array appends exactly Open, Advance, Close, the span   *)
(* being an ErrorTree with one token leaf, and increases pos by one; a     *)
(* call at the end of the array stops the parse in the assertion of        *)
(* advance, with no Advance appended and pos unchanged.                    *)
(***************************************************************************)
C23_SingleTokenRecovery ==
  [][CallAdvanceWithError
       => IF parser.pos < Len(parser.tokens) THEN SkipsOneToken
          ELSE /\ parser'.fatal = "AdvanceAtEnd"
               /\ parser'.pos = parser.pos
               /\ parser'.events = Append(parser.events, ErrorLeaf[1])]_vars

\* advance_with_error has been called on the first token
C23_Witness ==
  /\ parser.events = ErrorLeaf
  /\ parser.pos = 1
  /\ parser.lookaheads = 0
  /\ marks = {}

\* the step is a call of eat(kind), or of expect(kind)
Eats(kind) == InRule /\ parser' = eat(parser, kind) /\ marks' = marks

Expects(kind) == InRule /\ parser' = expect(parser, kind) /\ marks' = marks

\* what C24 says of a call with a non-matching lookahead
Refuses ==
  /\ parser'.returned = "false"
  /\ parser'.pos = parser.pos
  /\ parser'.events = parser.events

\* what C24 says of a call with a matching lookahead
Accepts ==
  /\ parser'.returned = "true"
  /\ parser'.pos = parser.pos + 1
  /\ parser'.events = Append(parser.events, [type |-> "Advance", kind |-> None])

\* the call stops the parse and returns nothing
StopsFatally ==
  /\ parser'.fatal # None
  /\ parser'.returned = parser.returned
  /\ parser'.pos = parser.pos
  /\ parser'.events = parser.events

\* C24 as stated, for every call: violated by the call whose lookahead uses
\* up the fuel
C24_Original ==
  [][\A kind \in EngineKinds :
       /\ Eats(kind) => IF nth(parser, 0) # kind THEN Refuses ELSE Accepts
       /\ (Expects(kind) /\ nth(parser, 0) # kind) => parser'.pos = parser.pos]_vars

(***************************************************************************)
(* C24.  eat/expect frame: a call of eat(kind) whose lookahead leaves fuel *)
(* returns false with pos and the event log unchanged if the lookahead     *)
(* does not match, and returns true with one Advance appended and pos      *)
(* increased by one if it matches a token of the array; a call whose       *)
(* lookahead uses up the fuel, or that matches the end-of-file kind past   *)
(* the end of the array, stops the parse and returns nothing, pos and the  *)
(* event log unchanged.  expect(kind) on a mismatch never changes pos.     *)
(***************************************************************************)
C24_EatExpectFrame ==
  [][\A kind \in EngineKinds :
       /\ Eats(kind)
            => IF parser.fuel = 1 THEN StopsFatally
               ELSE IF nth(parser, 0) # kind THEN Refuses
               ELSE IF parser.pos >= Len(parser.tokens) THEN StopsFatally
               ELSE Accepts
       /\ (Expects(kind) /\ nth(parser, 0) # kind) => parser'.pos = parser.pos]_vars

\* eat has matched the first token and returned true
C24_Witness ==
  /\ parser.returned = "true"
  /\ parser.pos = 1
  /\ parser.events = <<[type |-> "Advance", kind |-> None]>>

\* the collection is Identifier, Colon, Keyword(int), Assign, Literal Int,
\* NewLine, EOF
IsIntDeclaration ==
  [i \in 1..Len(parser.given) |-> parser.given[i].kind]
    = <<"TokenIdentifier", "TokenColon", "TokenKeyword(IntType)", "TokenAssign",
        "TokenLiteral(Int)", "TokenNewLine", "TokenEOF">>

(***************************************************************************)
(* C25.  Variable-declaration parsing: the parse of the tokens Identifier, *)
(* Colon, Keyword(int), Assign, Literal Int, NewLine, EOF returns one      *)
(* statement, the declaration (Stmt::Assign, the StmtVarDecl of the design *)
(* document) of the identifier with the type Int and the literal as value, *)
(* and stops on no error.                                                  *)
(***************************************************************************)
C25_VariableDeclaration ==
  (IsIntDeclaration /\ ParseOver)
    => /\ phase = "Returned"
       /\ parser.stmts = <<[stmt |-> "Assign", lhs |-> parser.given[1].lexeme,
                            type_ |-> "Int",
                            rhs |-> [literal |-> "Int",
                                     lexeme |-> parser.given[5].lexeme]]>>

(***************************************************************************)
(* C26.  Column order: in every state of the cursor while tokenizing, and  *)
(* in the location of every token yielded, column_start <= column_end.     *)
(***************************************************************************)
C26_ColumnOrder ==
  /\ cursor.column_start <= cursor.column_end
  /\ \A i \in 1..Len(tokens) : tokens[i].column_start <= tokens[i].column_end

\* a token of more than one column has been yielded after whitespace, and a
\* lexeme is pending
C26_Witness ==
  /\ \E i \in 1..Len(tokens) :
       /\ gaps[i] > 0
       /\ tokens[i].column_start > 0
       /\ tokens[i].column_end > tokens[i].column_start + 1
  /\ cursor.column_start < cursor.column_end

(***************************************************************************)
(* C27.  Not restartable: once a pull of the iterator has returned None,   *)
(* the lexer is in its End state, and every later pull returns None again, *)
(* yields no token, so no second EOF, and leaves the cursor unchanged.     *)
(***************************************************************************)
C27_NotRestartable ==
  /\ [](Exhausted => state = "End")
  /\ [][Exhausted => /\ nones' = nones + 1
                     /\ tokens' = tokens
                     /\ cursor' = cursor]_vars

\* the exhausted iterator has been pulled again, after a run that yielded
\* tokens and EOF
C27_Witness ==
  /\ nones = MaxNones
  /\ Len(tokens) > 1
  /\ CountKind("TokenEOF") = 1

(***************************************************************************)
(* C28.  Whitespace is skipped: no token is yielded for a space or a tab,  *)
(* and of two consecutive tokens on one line the second starts at the      *)
(* column where the first ends plus the number of spaces and tabs skipped  *)
(* between them.                                                           *)
(***************************************************************************)
C28_WhitespaceSkipped ==
  /\ \A i \in 1..Len(tokens) : tokens[i].kind \notin {"TokenSpace", "TokenTab"}
  /\ \A i \in Pairs :
       tokens[i + 1].line = tokens[i].line
         => tokens[i + 1].column_start = tokens[i].column_end + gaps[i + 1]

\* the number of characters of the text behind its last '\n'
LastLineLen(text) ==
  LET breaks == {i \in 1..Len(text) : text[i] = NEW_LINE}
  IN  IF breaks = {} THEN Len(text)
      ELSE Len(text) - (CHOOSE i \in breaks : \A j \in breaks : j <= i)

\* the token is the EOF token
IsEOF(t) == t.kind = "TokenEOF"

\* the NewLine tokens yielded before the i-th token
NewLinesBefore(i) ==
  Cardinality({j \in 1..(i - 1) : tokens[j].kind = "TokenNewLine"})

(***************************************************************************)
(* C29.  EOF location: the EOF token is zero-width, its column is the      *)
(* number of characters on the last line of the input (trailing spaces     *)
(* included) and its line is the number of NewLine tokens yielded.         *)
(***************************************************************************)
C29_EOFLocation ==
  \A i \in 1..Len(tokens) :
    IsEOF(tokens[i])
      => /\ tokens[i].column_start = tokens[i].column_end
         /\ tokens[i].column_start = LastLineLen(input)
         /\ tokens[i].line = NewLinesBefore(i)

(***************************************************************************)
(* C30.  Unexpected character stops the lexer: a Start step on a character *)
(* that no state accepts yields no token, records one UnexpectedToken      *)
(* error and exhausts the iterator; once an error is recorded it is the    *)
(* only one, and neither an Unknown token nor the EOF token is among the   *)
(* yielded tokens.                                                         *)
(***************************************************************************)
C30_UnexpectedCharStops ==
  /\ [][(Running /\ state = "Start" /\ IsUnknownChar(peek(cursor)))
          => /\ tokens' = tokens
             /\ Len(errors') = Len(errors) + 1
             /\ Exhausted']_vars
  /\ [](errors # <<>>
          => /\ Len(errors) = 1
             /\ ~HasUnknown
             /\ CountKind("TokenEOF") = 0)

\* the number of declarations that the collection has room for
Declared == (Len(parser.given) - 1) \div 6

\* the k-th token of the n-th declaration of the collection
DeclarationToken(n, k) == parser.given[6 * (n - 1) + k]

\* the type that parse_type gives for the kind of a type keyword
TypeOfKeyword ==
  [kind \in {"TokenKeyword(IntType)", "TokenKeyword(FloatType)",
             "TokenKeyword(BoolType)", "TokenKeyword(StrType)"} |->
     CASE kind = "TokenKeyword(IntType)" -> "Int"
       [] kind = "TokenKeyword(FloatType)" -> "Float"
       [] kind = "TokenKeyword(BoolType)" -> "Bool"
       [] kind = "TokenKeyword(StrType)" -> "Str"]

\* the collection is n >= 0 declarations Identifier, Colon, type Keyword,
\* Assign, Literal, NewLine, followed by EOF
IsDeclarations ==
  /\ Len(parser.given) = 6 * Declared + 1
  /\ parser.given[Len(parser.given)].kind = "TokenEOF"
  /\ \A n \in 1..Declared :
       /\ DeclarationToken(n, 1).kind = "TokenIdentifier"
       /\ DeclarationToken(n, 2).kind = "TokenColon"
       /\ DeclarationToken(n, 3).kind \in DOMAIN TypeOfKeyword
       /\ DeclarationToken(n, 4).kind = "TokenAssign"
       /\ DeclarationToken(n, 5).kind \in
            {"TokenLiteral(Int)", "TokenLiteral(Float)", "TokenLiteral(Bool)",
             "TokenLiteral(Str)"}
       /\ DeclarationToken(n, 6).kind = "TokenNewLine"

(***************************************************************************)
(* C31.  Typed parser on declarations: the parse of n >= 0 declarations    *)
(* Identifier, Colon, type Keyword, Assign, Literal, NewLine followed by   *)
(* EOF returns exactly n Assign statements in source order, the n-th with  *)
(* the lexeme of the n-th identifier as lhs and the type of the n-th       *)
(* keyword as type_, and has pulled every token of the collection, EOF     *)
(* being the last one.                                                     *)
(***************************************************************************)
C31_TypedDeclarations ==
  (IsDeclarations /\ ParseOver)
    => /\ phase = "Returned"
       /\ Len(parser.stmts) = Declared
       /\ \A n \in 1..Declared :
            /\ parser.stmts[n].stmt = "Assign"
            /\ parser.stmts[n].lhs = DeclarationToken(n, 1).lexeme
            /\ parser.stmts[n].type_ = TypeOfKeyword[DeclarationToken(n, 3).kind]
       /\ parser.lexer = <<>>
       /\ parser.curr_token = <<parser.given[Len(parser.given)]>>

(***************************************************************************)
(* Tree materialization: the second pass over the finished event log.      *)
(***************************************************************************)
add_child_in_front(node, child) == [node EXCEPT !.children = <<child>> \o @]

\* the child is appended to the children of the node
add_child(node, child) == [node EXCEPT !.children = Append(@, child)]

RECURSIVE build_tree(_, _, _)
\* the replay of the events on the stack with the raw tokens that are left:
\* Open pushes a fresh node; Close pops the top node and appends it to the
\* new top, the root staying on the stack; Advance pops the next raw token
\* and appends it to the top.  The replay fails when there is no node or no
\* raw token for an event
build_tree(events, stack, raw) ==
  LET e == Head(events)
      top == stack[Len(stack)]
      below == SubSeq(stack, 1, Len(stack) - 1)
      failed == [stack |-> stack, raw |-> raw, failed |-> TRUE]
  IN  IF events = <<>> THEN [stack |-> stack, raw |-> raw, failed |-> FALSE]
      ELSE IF e.type = "Open"
        THEN build_tree(Tail(events),
                        Append(stack, [kind |-> e.kind, children |-> <<>>]), raw)
      ELSE IF stack = <<>> THEN failed
      ELSE IF e.type = "Close"
        THEN IF below = <<>> THEN build_tree(Tail(events), stack, raw)
             ELSE build_tree(Tail(events),
                             [below EXCEPT ![Len(below)] = add_child(@, top)], raw)
      ELSE IF raw = <<>> THEN failed
      ELSE build_tree(Tail(events),
                      [stack EXCEPT ![Len(stack)] = add_child(@, [token |-> Head(raw)])],
                      Tail(raw))

(***************************************************************************)
(* Vocabulary of the properties of the tree.                               *)
(***************************************************************************)
\* the raw tokens of the parser, each with its place in the sequence
RawTokens == [i \in 1..Len(parser.tokens) |-> [at |-> i, kind |-> parser.tokens[i]]]

\* the replay of the parser's event log
Replayed == build_tree(parser.events, <<>>, RawTokens)

\* the replay has passed its two checks: one tree on the stack, no raw
\* token left
Materialized ==
  /\ ~Replayed.failed
  /\ Len(Replayed.stack) = 1
  /\ Replayed.raw = <<>>

RECURSIVE Leaves(_)
RECURSIVE LeavesOf(_)
\* the token leaves of a tree, read left to right in depth-first order
Leaves(child) ==
  IF "token" \in DOMAIN child THEN <<child.token>> ELSE LeavesOf(child.children)

LeavesOf(children) ==
  IF children = <<>> THEN <<>>
  ELSE Leaves(Head(children)) \o LeavesOf(Tail(children))

(***************************************************************************)
(* C32.  Tree leaf order: in the tree rebuilt from the event log that      *)
(* parse_file finished with, the token leaves read left to right in        *)
(* depth-first order are exactly the raw token sequence in its original    *)
(* order.                                                                  *)
(***************************************************************************)
C32_TreeLeafOrder ==
  (Finished /\ Materialized) => Leaves(Replayed.stack[1]) = RawTokens

\* a tree has been rebuilt whose leaves lie at three depths: a token of the
\* declaration, and the token of its type
C32_Witness ==
  /\ Finished /\ Materialized
  /\ Len(parser.tokens) >= 7
  /\ \E decl \in 1..Len(Replayed.stack[1].children) :
       LET node == Replayed.stack[1].children[decl]
       IN  /\ "children" \in DOMAIN node
           /\ \E i, j \in 1..Len(node.children) :
                /\ i < j
                /\ "token" \in DOMAIN node.children[i]
                /\ "children" \in DOMAIN node.children[j]
                /\ node.children[j].children # <<>>

\* the parse has stopped in the assertion of advance
AdvancedAtEnd == parser.fatal = "AdvanceAtEnd"

Yielded == tokens'[Len(tokens')]

(***************************************************************************)
(* C34.  Symbol-state tokens are table entries: every token yielded by a   *)
(* step of the Symbol state, other than NewLine, has as lexeme one of the  *)
(* one- or two-character entries of the punctuation table                  *)
(* (match_separator) and the kind of that entry.                           *)
(***************************************************************************)
C34_SymbolTableEntries ==
  [][(Running /\ state = "Symbol" /\ Emits /\ Yielded.kind # "TokenNewLine")
       => /\ Len(Yielded.lexeme) \in {1, 2}
          /\ match_separator(Yielded.lexeme) # None
          /\ Yielded.kind = match_separator(Yielded.lexeme)]_vars

(***************************************************************************)
(* C35.  Symbol pending at end of input is emitted: a step of the Symbol   *)
(* state that finds the end of the input behind one or more accumulated    *)
(* characters of '-', '=', '+' yields a token whose lexeme is the          *)
(* accumulated text, so that it stands before the EOF token.               *)
(***************************************************************************)
C35_PendingSymbolEmitted ==
  [][(/\ Running /\ state = "Symbol" /\ peek(cursor) = None
      /\ PendingOk(cursor) /\ Pending(cursor) # <<>>
      /\ \A i \in 1..Len(Pending(cursor)) :
           can_be_followed_by_another_symbol(Pending(cursor)[i]))
       => /\ Emits
          /\ Yielded.lexeme = Pending(cursor)
          /\ Yielded.kind # "TokenEOF"]_vars

C37_LexemeWidth ==
  \A i \in 1..Len(tokens) :
    tokens[i].kind \notin {"TokenNewLine", "TokenEOF"}
      => Len(tokens[i].lexeme) = tokens[i].column_end - tokens[i].column_start

\* the '\n' characters among the first n characters of the text
NewLinesIn(text, n) == Cardinality({i \in 1..n : text[i] = NEW_LINE})

\* the number of characters of the text before the first character of the
\* token that this step yields: the '\n' itself for the NewLine token of
\* the Symbol state, the end of the text for EOF, else the start of the
\* pending lexeme
BeforeYielded ==
  IF state = "EOF" THEN Len(cursor.content)
  ELSE IF state = "Symbol" /\ peek(cursor) = NEW_LINE /\ Yielded.kind = "TokenNewLine"
    THEN cursor.offset
  ELSE cursor.index

(***************************************************************************)
(* C38.  Line number tracks source newlines: on a text of one-byte         *)
(* characters, where the indices of the cursor are character positions,    *)
(* the line of every yielded token is the number of '\n' characters before *)
(* the token's first character, those inside string literals included.     *)
(***************************************************************************)
C38_LineTracksNewlines ==
  [][(Running /\ OneByteText /\ Emits)
       => Yielded.line = NewLinesIn(cursor.content, BeforeYielded)]_vars

====
